---- MODULE Spec2Model ----
(***************************************************************************)
(* A model of dltp (src/dltp.go, the second program of the file, lines     *)
(* 211-496): the bufio.Scanner loop of main with its split function, and   *)
(* the decoders Message.Parse, StandardHeader.Parse, ExtendedHeader.Parse  *)
(* and Payload.Parse it applies to every frame.                            *)
(*                                                                         *)
(* Bytes are naturals 0..255.  A Go slice is a record                      *)
(*     [arr |-> the bytes from the slice's start to its capacity,          *)
(*      len |-> its length],                                               *)
(* so that a slice expression is checked against the capacity and an       *)
(* index against the length, as the Go runtime does.                       *)
(***************************************************************************)
EXTENDS Integers, Sequences, FiniteSets, TLC

VARIABLES
    input,    \* the bytes of the file os.Args[1]
    rd,       \* the file offset: how many bytes Read has delivered
    buf,      \* scn.buf, the scanner's buffer (all len(buf) bytes of it)
    start,    \* scn.start
    end,      \* scn.end
    serr,     \* scn.err: "nil", "EOF" or "ErrTooLong"
    done,     \* scn.done
    token,    \* scn.token, as a slice of buf (what scn.Bytes() returns)
    index,    \* main's index
    msg,      \* main's msg, as the last msg.Parse left it
    out,      \* what the run has written: marker lines and message lines
    pc,       \* where main is
    tokens,   \* history: the frames Scan has yielded
    allow,    \* the filter stage's allow-list
    fpos,     \* how many decoded messages the filter stage has taken
    fwd       \* the messages the filter stage has forwarded

vars == <<input, rd, buf, start, end, serr, done, token, index, msg, out, pc,
          tokens, allow, fpos, fwd>>

----------------------------------------------------------------------------
(* Bounds of the model *)

\* len of the buffer bufio.Scanner first allocates (bufio's startBufSize, 4096)
StartBufSize == 32
\* the size the buffer may grow to (bufio.MaxScanTokenSize, 65536)
MaxScanTokenSize == 64
\* the most frames an input is made of
MaxFrames == 2
\* the most arguments a verbose payload is made of
MaxArgs == 2

----------------------------------------------------------------------------
(* Program constants *)

UEH  == 1
MSBF == 2
WEID == 4
WSID == 8
WTMS == 16

VERB == 1

BOOL == 16
SINT == 32
UINT == 64
STRG == 512
VARI == 2048
FIXP == 4096

\* the storage header's size, the standard header's fixed part (through the
\* length field) and the extended header's size
StorageSize == 16
FixedHeaderSize == 4
ExtendedSize == 10

----------------------------------------------------------------------------
(* Bytes, integers and slices *)

Min(a, b) == IF a < b THEN a ELSE b

\* x & mask # 0, for a mask of one bit
HasBit(x, mask) == (x \div mask) % 2 = 1

RECURSIVE Pow2(_)
Pow2(n) == IF n = 0 THEN 1 ELSE 2 * Pow2(n - 1)

Zeros(n) == [i \in 1..n |-> 0]

MkSlice(arr, len) == [arr |-> arr, len |-> len]
NilSlice == MkSlice(<<>>, 0)
Cap(s) == Len(s.arr)

\* s[lo:hi] is in range iff 0 <= lo <= hi <= cap(s)
SliceOK(s, lo, hi) == 0 <= lo /\ lo <= hi /\ hi <= Cap(s)
Slice(s, lo, hi) == MkSlice(SubSeq(s.arr, lo + 1, Cap(s)), hi - lo)
\* s[lo:] is s[lo:len(s)]
SliceFromOK(s, lo) == SliceOK(s, lo, s.len)
SliceFrom(s, lo) == Slice(s, lo, s.len)
\* s[i] is in range iff i < len(s)
IdxOK(s, i) == 0 <= i /\ i < s.len
Idx(s, i) == s.arr[i + 1]
\* the len(s) bytes of s
Bytes(s) == SubSeq(s.arr, 1, s.len)

\* binary.BigEndian.Uint16 / Uint32 and binary.LittleEndian.Uint16 / Uint32
\* of a slice of 2 or 4 bytes
BigEndianUint16(s) == Idx(s, 0) * 256 + Idx(s, 1)
BigEndianUint32(s) ==
    ((Idx(s, 0) * 256 + Idx(s, 1)) * 256 + Idx(s, 2)) * 256 + Idx(s, 3)
LittleEndianUint16(s) == Idx(s, 0) + 256 * Idx(s, 1)
LittleEndianUint32(s) ==
    Idx(s, 0) + 256 * (Idx(s, 1) + 256 * (Idx(s, 2) + 256 * Idx(s, 3)))

----------------------------------------------------------------------------
(* The split function of main *)

\* the element of a set of one element: The({e(x) : x \in {v}}) is e(v),
\* v worked out once
The(S) == CHOOSE x \in S : TRUE

NoToken == [advance |-> 0, tok |-> FALSE, token |-> NilSlice, err |-> "nil"]

\* split, were the length field to count what follows the fixed header
splitAfterHeader(data, atEOF) ==
    IF data.len < StorageSize + FixedHeaderSize THEN NoToken
    ELSE LET mlen    == BigEndianUint16(Slice(data, 18, 20))
             advance == StorageSize + FixedHeaderSize + mlen
         IN  IF data.len < advance THEN NoToken
             ELSE IF data.len <= advance
                  THEN IF atEOF
                       THEN [advance |-> advance, tok |-> TRUE,
                             token |-> Slice(data, 0, advance),
                             err |-> "ErrFinalToken"]
                       ELSE NoToken
                  ELSE [advance |-> advance, tok |-> TRUE,
                        token |-> Slice(data, 0, advance), err |-> "nil"]

\* split, were the token to leave out the storage header (as the first
\* program's main skips it)
splitSkipStorage(data, atEOF) ==
    IF data.len < StorageSize + FixedHeaderSize THEN NoToken
    ELSE LET mlen    == BigEndianUint16(Slice(data, 18, 20))
             advance == StorageSize + mlen
         IN  IF data.len < advance THEN NoToken
             ELSE IF data.len <= advance
                  THEN IF atEOF
                       THEN [advance |-> advance, tok |-> TRUE,
                             token |-> Slice(data, StorageSize, advance),
                             err |-> "ErrFinalToken"]
                       ELSE NoToken
                  ELSE [advance |-> advance, tok |-> TRUE,
                        token |-> Slice(data, StorageSize, advance),
                        err |-> "nil"]

\* split, were a frame that ends the data at the end of the file to wait
\* for more as well
splitNoFinal(data, atEOF) ==
    IF data.len < StorageSize + FixedHeaderSize THEN NoToken
    ELSE LET mlen    == BigEndianUint16(Slice(data, 18, 20))
             advance == StorageSize + mlen
         IN  IF data.len <= advance THEN NoToken
             ELSE [advance |-> advance, tok |-> TRUE,
                   token |-> Slice(data, 0, advance), err |-> "nil"]

\* binary.Read of the two bytes data[18:20] into a uint16 cannot fail, so the
\* log.Fatal(err) of line 464 is never reached.
split(data, atEOF) ==
    IF data.len < StorageSize + FixedHeaderSize THEN NoToken
    ELSE LET mlen    == BigEndianUint16(Slice(data, 18, 20))
             advance == StorageSize + mlen
         IN  IF data.len < advance THEN NoToken
             ELSE IF data.len <= advance
                  THEN IF atEOF
                       THEN [advance |-> advance, tok |-> TRUE,
                             token |-> Slice(data, 0, advance),
                             err |-> "ErrFinalToken"]
                       ELSE NoToken
                  ELSE [advance |-> advance, tok |-> TRUE,
                        token |-> Slice(data, 0, advance), err |-> "nil"]

----------------------------------------------------------------------------
(* Text: a string is the sequence of its bytes *)

RECURSIVE Dec(_)
\* %d of a natural number
Dec(n) == IF n < 10 THEN <<48 + n>> ELSE Dec(n \div 10) \o <<48 + (n % 10)>>

HexDigit(d) == IF d < 10 THEN 48 + d ELSE 87 + d

\* How strconv.Quote and strconv.QuoteToGraphic write one byte below 0x80
\* (the two differ only on runes beyond ASCII); a byte from 0x80 on that is
\* no part of a valid UTF-8 sequence is written \xNN as well.
QuoteByte(b) ==
    CASE b = 34  -> <<92, 34>>
      [] b = 92  -> <<92, 92>>
      [] b = 7   -> <<92, 97>>
      [] b = 8   -> <<92, 98>>
      [] b = 12  -> <<92, 102>>
      [] b = 10  -> <<92, 110>>
      [] b = 13  -> <<92, 114>>
      [] b = 9   -> <<92, 116>>
      [] b = 11  -> <<92, 118>>
      [] OTHER   -> IF b >= 32 /\ b < 127 THEN <<b>>
                    ELSE <<92, 120, HexDigit(b \div 16), HexDigit(b % 16)>>

RECURSIVE QuoteBody(_)
\* the text between the quotes of strconv.Quote(string(bs))
QuoteBody(bs) ==
    IF bs = <<>> THEN <<>> ELSE QuoteByte(Head(bs)) \o QuoteBody(Tail(bs))

RECURSIVE TrimRight(_)
\* bytes.TrimRight(bs, "\x00")
TrimRight(bs) ==
    IF bs # <<>> /\ bs[Len(bs)] = 0 THEN TrimRight(SubSeq(bs, 1, Len(bs) - 1))
    ELSE bs

RECURSIVE TrimLeft(_)
TrimLeft(bs) == IF bs # <<>> /\ Head(bs) = 0 THEN TrimLeft(Tail(bs)) ELSE bs

\* strings.Trim(s, "\x00")
Trim(bs) == TrimLeft(TrimRight(bs))

\* fmt.Sprintf("<%d (%d) %q>", messageID, n, raw)
Sprintf(messageID, n, raw) ==
    <<60>> \o Dec(messageID) \o <<32, 40>> \o Dec(n) \o <<41, 32>>
    \o <<34>> \o QuoteBody(raw) \o <<34>> \o <<62>>

----------------------------------------------------------------------------
(* The header decoders *)

\* time.Unix(sec, mic*1000), normalised to 0 <= nsec < 1e9
StorageHeaderParse(data) ==
    LET sec == LittleEndianUint32(Slice(data, 4, 8))
        mic == LittleEndianUint32(Slice(data, 8, 12))
    IN  [timestamp |-> [sec  |-> sec + (mic \div 1000000),
                        nsec |-> (mic % 1000000) * 1000]]

PanicHeader ==
    [panic |-> TRUE, htyp |-> 0, msbf |-> FALSE, weid |-> FALSE,
     wsid |-> FALSE, wtms |-> FALSE, ueh |-> FALSE, mcnt |-> 0, len |-> 0,
     tmsp |-> 0, size |-> 0]

\* StandardHeader.Parse, were the length read one byte early (data[1:3])
StandardHeaderParseLenEarly(data) ==
    IF ~IdxOK(data, 0) \/ ~IdxOK(data, 1) \/ ~SliceOK(data, 1, 3)
    THEN PanicHeader
    ELSE LET htyp == Idx(data, 0)
             weid == HasBit(htyp, WEID)
             wsid == HasBit(htyp, WSID)
             wtms == HasBit(htyp, WTMS)
             s0   == 4
             s1   == IF weid THEN s0 + 4 ELSE s0
             s2   == IF wsid THEN s1 + 4 ELSE s1
         IN  IF wtms /\ ~SliceOK(data, s2, s2 + 4) THEN PanicHeader
             ELSE [panic |-> FALSE,
                   htyp  |-> htyp,
                   msbf  |-> HasBit(htyp, MSBF),
                   weid  |-> weid,
                   wsid  |-> wsid,
                   wtms  |-> wtms,
                   ueh   |-> HasBit(htyp, UEH),
                   mcnt  |-> Idx(data, 1),
                   len   |-> BigEndianUint16(Slice(data, 1, 3)),
                   tmsp  |-> IF wtms
                             THEN BigEndianUint32(Slice(data, s2, s2 + 4))
                             ELSE 0,
                   size  |-> IF wtms THEN s2 + 4 ELSE s2]

\* tmsp is kept as the uint32 read, in units of 1E-4 s
\* StandardHeader.Parse, were size advanced before the timestamp is read
StandardHeaderParseTmspLate(data) ==
    IF ~IdxOK(data, 0) \/ ~IdxOK(data, 1) \/ ~SliceOK(data, 2, 4)
    THEN PanicHeader
    ELSE LET htyp == Idx(data, 0)
             weid == HasBit(htyp, WEID)
             wsid == HasBit(htyp, WSID)
             wtms == HasBit(htyp, WTMS)
             s0   == 4
             s1   == IF weid THEN s0 + 4 ELSE s0
             s2   == IF wsid THEN s1 + 4 ELSE s1
             s3   == IF wtms THEN s2 + 4 ELSE s2
         IN  IF wtms /\ ~SliceOK(data, s3, s3 + 4) THEN PanicHeader
             ELSE [panic |-> FALSE,
                   htyp  |-> htyp,
                   msbf  |-> HasBit(htyp, MSBF),
                   weid  |-> weid,
                   wsid  |-> wsid,
                   wtms  |-> wtms,
                   ueh   |-> HasBit(htyp, UEH),
                   mcnt  |-> Idx(data, 1),
                   len   |-> BigEndianUint16(Slice(data, 2, 4)),
                   tmsp  |-> IF wtms
                             THEN BigEndianUint32(Slice(data, s3, s3 + 4))
                             ELSE 0,
                   size  |-> s3]

StandardHeaderParse(data) ==
    IF ~IdxOK(data, 0) \/ ~IdxOK(data, 1) \/ ~SliceOK(data, 2, 4)
    THEN PanicHeader
    ELSE LET htyp == Idx(data, 0)
             weid == HasBit(htyp, WEID)
             wsid == HasBit(htyp, WSID)
             wtms == HasBit(htyp, WTMS)
             s0   == 4
             s1   == IF weid THEN s0 + 4 ELSE s0
             s2   == IF wsid THEN s1 + 4 ELSE s1
         IN  IF wtms /\ ~SliceOK(data, s2, s2 + 4) THEN PanicHeader
             ELSE [panic |-> FALSE,
                   htyp  |-> htyp,
                   msbf  |-> HasBit(htyp, MSBF),
                   weid  |-> weid,
                   wsid  |-> wsid,
                   wtms  |-> wtms,
                   ueh   |-> HasBit(htyp, UEH),
                   mcnt  |-> Idx(data, 1),
                   len   |-> BigEndianUint16(Slice(data, 2, 4)),
                   tmsp  |-> IF wtms
                             THEN BigEndianUint32(Slice(data, s2, s2 + 4))
                             ELSE 0,
                   size  |-> IF wtms THEN s2 + 4 ELSE s2]

\* the zero value of ExtendedHeader
NoExtendedHeader ==
    [msin |-> 0, verb |-> FALSE, mstp |-> 0, mtin |-> 0, noar |-> 0,
     apid |-> <<>>, ctid |-> <<>>]

\* data is a slice of 10 bytes
\* ExtendedHeader.Parse, were apid read where ctid lies
ExtendedHeaderParseApidLate(data) ==
    LET msin == Idx(data, 0)
    IN  [msin |-> msin,
         verb |-> HasBit(msin, VERB),
         mstp |-> (msin \div 2) % 4,
         mtin |-> (msin \div 16) % 16,
         noar |-> Idx(data, 1),
         apid |-> Bytes(Slice(data, 6, 10)),
         ctid |-> Bytes(Slice(data, 6, 10))]

ExtendedHeaderParse(data) ==
    LET msin == Idx(data, 0)
    IN  [msin |-> msin,
         verb |-> HasBit(msin, VERB),
         mstp |-> (msin \div 2) % 4,
         mtin |-> (msin \div 16) % 16,
         noar |-> Idx(data, 1),
         apid |-> Bytes(Slice(data, 2, 6)),
         ctid |-> Bytes(Slice(data, 6, 10))]

----------------------------------------------------------------------------
(* The argument decoders.  Each returns [panic, v, rest]: whether the Go   *)
(* runtime panics (an index or a slice out of range, a call of a nil       *)
(* function), the value and the rest of the data.                          *)

NoValue == [kind |-> "none", val |-> 0]
ArgPanic == [panic |-> TRUE, v |-> NoValue, rest |-> NilSlice]

parseBool(tinfo, data) ==
    IF ~IdxOK(data, 0) THEN ArgPanic
    ELSE [panic |-> FALSE,
          v     |-> [kind |-> "bool", val |-> (Idx(data, 0) # 0)],
          rest  |-> SliceFrom(data, 1)]

\* 1 << (tinfo & 0x0F - 1): the count is a uint32, so a length class of 0
\* wraps to the count 2^32 - 1, and a shift of an int by 64 or more gives 0
ShiftLength(tinfo) ==
    LET tyle == tinfo % 16
    IN  IF tyle = 0 THEN 0 ELSE Pow2(tyle - 1)

\* parseSint, were the length 1 << (tinfo & 0x0F)
parseSintNoMinus(tinfo, data) ==
    LET length == Pow2(tinfo % 16)
    IN  IF ~SliceFromOK(data, length) THEN ArgPanic
        ELSE [panic |-> FALSE,
              v     |-> [kind |-> "int32", val |-> 0],
              rest  |-> SliceFrom(data, length)]

parseSint(tinfo, data) ==
    LET length == ShiftLength(tinfo)
    IN  IF ~SliceFromOK(data, length) THEN ArgPanic
        ELSE [panic |-> FALSE,
              v     |-> [kind |-> "int32", val |-> 0],
              rest  |-> SliceFrom(data, length)]

parseUint(tinfo, data) ==
    LET length == ShiftLength(tinfo)
    IN  IF ~SliceFromOK(data, length) THEN ArgPanic
        ELSE [panic |-> FALSE,
              v     |-> [kind |-> "uint32", val |-> 0],
              rest  |-> SliceFrom(data, length)]

\* length is a uint16, and so is 2+length
parseString(tinfo, data) ==
    IF ~SliceOK(data, 0, 2) THEN ArgPanic
    ELSE LET length == LittleEndianUint16(Slice(data, 0, 2))
             hi     == (2 + length) % 65536
         IN  IF ~SliceOK(data, 2, hi) \/ ~SliceFromOK(data, hi) THEN ArgPanic
             ELSE [panic |-> FALSE,
                   v     |-> [kind |-> "string",
                              val  |-> QuoteBody(TrimRight(
                                           Bytes(Slice(data, 2, hi))))],
                   rest  |-> SliceFrom(data, hi)]

\* typeInfo & (BOOL | SINT | UINT | STRG)
TypeKey(typeInfo) ==
    (IF HasBit(typeInfo, BOOL) THEN BOOL ELSE 0)
    + (IF HasBit(typeInfo, SINT) THEN SINT ELSE 0)
    + (IF HasBit(typeInfo, UINT) THEN UINT ELSE 0)
    + (IF HasBit(typeInfo, STRG) THEN STRG ELSE 0)

\* the lines fmt.Println writes for the VARI and the FIXP bit
Marks(typeInfo) ==
    (IF HasBit(typeInfo, VARI) THEN <<"*****   VARI   *****">> ELSE <<>>)
    \o (IF HasBit(typeInfo, FIXP) THEN <<"*****   FIXP   *****">> ELSE <<>>)

\* [panic, v, rest, marks]; pf[key] is nil for a key of two or more bits
parseArg(data) ==
    IF ~SliceOK(data, 0, 4)
    THEN [panic |-> TRUE, v |-> NoValue, rest |-> NilSlice, marks |-> <<>>]
    ELSE LET typeInfo == LittleEndianUint32(Slice(data, 0, 4))
             key      == TypeKey(typeInfo)
             r == IF key = 0
                  THEN [panic |-> FALSE,
                        v     |-> [kind |-> "raw", val |-> Bytes(data)],
                        rest  |-> data]
                  ELSE IF ~SliceFromOK(data, 4) THEN ArgPanic
                  ELSE LET d == SliceFrom(data, 4)
                       IN  CASE key = BOOL -> parseBool(typeInfo, d)
                             [] key = SINT -> parseSint(typeInfo, d)
                             [] key = UINT -> parseUint(typeInfo, d)
                             [] key = STRG -> parseString(typeInfo, d)
                             [] OTHER      -> ArgPanic
         IN  [panic |-> r.panic, v |-> r.v, rest |-> r.rest,
              marks |-> Marks(typeInfo)]

RECURSIVE parseArgs(_, _, _, _)
\* the loop of Payload.Parse from argument i on: [panic, args, marks]
parseArgs(i, noar, data, acc) ==
    IF i >= noar THEN [panic |-> FALSE, args |-> acc.args, marks |-> acc.marks]
    ELSE The({ IF r.panic
               THEN [panic |-> TRUE, args |-> acc.args,
                     marks |-> acc.marks \o r.marks]
               ELSE parseArgs(i + 1, noar, r.rest,
                              [args  |-> Append(acc.args, r.v),
                               marks |-> acc.marks \o r.marks])
               : r \in {parseArg(data)} })

PayloadParse(verbose, noar, data) ==
    IF ~verbose
    THEN IF ~SliceOK(data, 0, 4) \/ ~SliceFromOK(data, 4)
         THEN [panic |-> TRUE, args |-> <<>>, marks |-> <<>>]
         ELSE LET messageID == LittleEndianUint32(Slice(data, 0, 4))
                  raw       == Bytes(SliceFrom(data, 4))
              IN  [panic |-> FALSE,
                   args  |-> <<[kind |-> "string",
                                val  |-> Sprintf(messageID, Len(raw), raw)]>>,
                   marks |-> <<>>]
    ELSE parseArgs(0, noar, data, [args |-> <<>>, marks |-> <<>>])

\* var msg Message
NoMessage ==
    [panic |-> FALSE, marks |-> <<>>,
     st |-> [timestamp |-> [sec |-> 0, nsec |-> 0]],
     sh |-> [PanicHeader EXCEPT !.panic = FALSE],
     eh |-> NoExtendedHeader, pl |-> [args |-> <<>>], verbose |-> FALSE]

\* Message.Parse, were payloadOffset not moved past the extended header
MessageParseNoExtOffset(data) ==
    IF ~SliceOK(data, 0, 16) \/ ~SliceFromOK(data, 16)
    THEN [NoMessage EXCEPT !.panic = TRUE, !.sh = PanicHeader]
    ELSE
    The({
    LET st == StorageHeaderParse(Slice(data, 0, 16))
        d  == SliceFrom(data, 16)
        bad == [panic |-> TRUE, marks |-> <<>>, st |-> st, sh |-> sh,
                eh |-> NoExtendedHeader, pl |-> [args |-> <<>>],
                verbose |-> FALSE]
    IN  IF sh.panic THEN bad
        ELSE IF sh.ueh /\ ~SliceOK(d, sh.size, sh.size + 10) THEN bad
        ELSE LET eh == IF sh.ueh
                       THEN ExtendedHeaderParse(Slice(d, sh.size, sh.size + 10))
                       ELSE NoExtendedHeader
                 noar == IF sh.ueh THEN eh.noar ELSE 0
                 payloadOffset == sh.size
                 verbose == sh.ueh /\ eh.verb
             IN  IF ~SliceFromOK(d, payloadOffset)
                 THEN [bad EXCEPT !.eh = eh, !.verbose = verbose]
                 ELSE LET pl == PayloadParse(verbose, noar,
                                             SliceFrom(d, payloadOffset))
                      IN  [panic |-> pl.panic, marks |-> pl.marks, st |-> st,
                           sh |-> sh, eh |-> eh, pl |-> [args |-> pl.args],
                           verbose |-> verbose]
    : sh \in {StandardHeaderParse(SliceFrom(data, 16))} })

\* [panic, marks, st, sh, eh, pl, verbose]; data is the frame scn.Bytes()
MessageParse(data) ==
    IF ~SliceOK(data, 0, 16) \/ ~SliceFromOK(data, 16)
    THEN [NoMessage EXCEPT !.panic = TRUE, !.sh = PanicHeader]
    ELSE
    The({
    LET st == StorageHeaderParse(Slice(data, 0, 16))
        d  == SliceFrom(data, 16)
        bad == [panic |-> TRUE, marks |-> <<>>, st |-> st, sh |-> sh,
                eh |-> NoExtendedHeader, pl |-> [args |-> <<>>],
                verbose |-> FALSE]
    IN  IF sh.panic THEN bad
        ELSE IF sh.ueh /\ ~SliceOK(d, sh.size, sh.size + 10) THEN bad
        ELSE LET eh == IF sh.ueh
                       THEN ExtendedHeaderParse(Slice(d, sh.size, sh.size + 10))
                       ELSE NoExtendedHeader
                 noar == IF sh.ueh THEN eh.noar ELSE 0
                 payloadOffset == IF sh.ueh THEN sh.size + 10 ELSE sh.size
                 verbose == sh.ueh /\ eh.verb
             IN  IF ~SliceFromOK(d, payloadOffset)
                 THEN [bad EXCEPT !.eh = eh, !.verbose = verbose]
                 ELSE LET pl == PayloadParse(verbose, noar,
                                             SliceFrom(d, payloadOffset))
                      IN  [panic |-> pl.panic, marks |-> pl.marks, st |-> st,
                           sh |-> sh, eh |-> eh, pl |-> [args |-> pl.args],
                           verbose |-> verbose]
    : sh \in {StandardHeaderParse(SliceFrom(data, 16))} })

\* the line printMessage writes, as the values it formats
printMessage(m, i) ==
    [kind  |-> "msg",
     index |-> i,
     htyp  |-> m.sh.htyp,
     mcnt  |-> m.sh.mcnt,
     timestamp |-> m.st.timestamp,
     tmsp  |-> m.sh.tmsp,
     verb  |-> IF m.verbose THEN "v" ELSE "n",
     ueh   |-> m.sh.ueh,
     mstp  |-> m.eh.mstp,
     mtin  |-> m.eh.mtin,
     apid  |-> Trim(m.eh.apid),
     ctid  |-> Trim(m.eh.ctid),
     noar  |-> m.eh.noar,
     args  |-> m.pl.args]

Mark(text) == [kind |-> "mark", text |-> text]

----------------------------------------------------------------------------
(* bufio.Scanner: the loop of Scan, cut at its call of Read.               *)
(* pc: "scan"  main is in scn.Scan(), at the top of its loop               *)
(*     "read"  Scan has no token in what it holds and must read            *)
(*     "body"  Scan returned true: main's loop body is to run              *)
(*     "err"   Scan returned false: main is at scn.Err()                   *)
(*     "exit"  main returned;  "fatal"  log.Fatal(err);                    *)
(*     "panic" a run-time panic ended the process                          *)

atEOF == serr # "nil"

\* s.buf[s.start:s.end]
Data == MkSlice(SubSeq(buf, start + 1, Len(buf)), end - start)

\* s.setErr
setErr(err) == IF serr = "nil" \/ serr = "EOF" THEN err ELSE serr

\* what the history keeps of a frame Scan yields
Yielded(r) == [bytes |-> Bytes(r.token), atEOF |-> atEOF]

\* One pass of the first half of Scan's loop: the done test (true only on
\* entry), the call of split, s.advance and the return of a token.
ScanStep ==
    /\ pc = "scan"
    /\ UNCHANGED <<input, rd, buf, serr, index, msg, out, allow, fpos, fwd>>
    /\ IF done
       THEN pc' = "err" /\ UNCHANGED <<start, end, done, token, tokens>>
       ELSE IF end > start \/ atEOF
       THEN LET r == split(Data, atEOF)
            IN  IF r.err = "ErrFinalToken"
                THEN /\ token' = r.token
                     /\ done' = TRUE
                     /\ pc' = "body"
                     /\ tokens' = Append(tokens, Yielded(r))
                     /\ UNCHANGED <<start, end>>
                ELSE /\ token' = r.token
                     /\ UNCHANGED done
                     /\ IF r.tok
                        THEN /\ start' = start + r.advance
                             /\ pc' = "body"
                             /\ tokens' = Append(tokens, Yielded(r))
                             /\ UNCHANGED end
                        ELSE /\ UNCHANGED tokens
                             /\ IF atEOF
                                THEN start' = 0 /\ end' = 0 /\ pc' = "err"
                                ELSE pc' = "read" /\ UNCHANGED <<start, end>>
       ELSE pc' = "read" /\ UNCHANGED <<start, end, done, token, tokens>>

\* copy(s.buf, s.buf[s.start:s.end]) when there is lots of empty space or
\* space is needed
Shifted ==
    IF start > 0 /\ (end = Len(buf) \/ start > Len(buf) \div 2)
    THEN [buf   |-> SubSeq(buf, start + 1, end)
                    \o SubSeq(buf, end - start + 1, Len(buf)),
          start |-> 0,
          end   |-> end - start]
    ELSE [buf |-> buf, start |-> start, end |-> end]

\* the new buffer when the buffer is full: twice the size, at most
\* maxTokenSize
Grown(s) ==
    LET twice   == 2 * Len(s.buf)
        newSize == Min(IF twice = 0 THEN StartBufSize ELSE twice,
                       MaxScanTokenSize)
    IN  [buf   |-> SubSeq(s.buf, s.start + 1, s.end)
                    \o Zeros(newSize - (s.end - s.start)),
         start |-> 0,
         end   |-> s.end - s.start]

\* The second half of Scan's loop: make room, then one call of Read, which
\* delivers between 1 byte and all the room while the file has bytes left,
\* and 0, io.EOF at its end.
ReadStep ==
    /\ pc = "read"
    /\ UNCHANGED <<input, done, token, index, msg, out, tokens, allow, fpos,
                   fwd>>
    /\ LET s == Shifted
           full == s.end = Len(s.buf)
       IN  IF full /\ Len(s.buf) >= MaxScanTokenSize
           THEN /\ serr' = setErr("ErrTooLong")
                /\ buf' = s.buf /\ start' = s.start /\ end' = s.end
                /\ pc' = "err"
                /\ UNCHANGED rd
           ELSE LET g == IF full THEN Grown(s) ELSE s
                IN  /\ start' = g.start
                    /\ pc' = "scan"
                    /\ IF rd >= Len(input)
                       THEN /\ serr' = setErr("EOF")
                            /\ buf' = g.buf /\ end' = g.end
                            /\ UNCHANGED rd
                       ELSE \E n \in 1..Min(Len(g.buf) - g.end,
                                            Len(input) - rd) :
                            /\ rd' = rd + n
                            /\ end' = g.end + n
                            /\ buf' = SubSeq(g.buf, 1, g.end)
                                      \o SubSeq(input, rd + 1, rd + n)
                                      \o SubSeq(g.buf, g.end + n + 1,
                                                Len(g.buf))
                            /\ UNCHANGED serr

\* main's loop body: msg.Parse(scn.Bytes()); printMessage(msg, index); index++
Body ==
    /\ pc = "body"
    /\ UNCHANGED <<input, rd, buf, start, end, serr, done, token, tokens,
                   allow, fpos, fwd>>
    /\ \E m \in {MessageParse(token)} :
           LET marks == [i \in 1..Len(m.marks) |-> Mark(m.marks[i])]
           IN  /\ msg' = m
               /\ IF m.panic
                  THEN /\ pc' = "panic"
                       /\ out' = out \o marks
                       /\ UNCHANGED index
                  ELSE /\ pc' = "scan"
                       /\ index' = index + 1
                       /\ out' = out \o marks \o <<printMessage(m, index)>>

\* if err = scn.Err(); err != nil { log.Fatal(err) }
Finish ==
    /\ pc = "err"
    /\ pc' = IF serr = "nil" \/ serr = "EOF" THEN "exit" ELSE "fatal"
    /\ UNCHANGED <<input, rd, buf, start, end, serr, done, token, index, msg,
                   out, tokens, allow, fpos, fwd>>

Next == ScanStep \/ ReadStep \/ Body \/ Finish

\* the predicate of the filter stage on a decoded message m: an empty
\* allow-list passes all, another one the messages with an extended header
\* whose application identifier it holds
Filter(m, allowList) ==
    allowList = {} \/ (m.ueh /\ m.apid \in allowList)

\* the filter stage takes the next line main has written; a decoded message
\* that passes is forwarded to the consumer
FilterStep ==
    /\ fpos < Len(out)
    /\ fpos' = fpos + 1
    /\ fwd' = IF out[fpos + 1].kind = "msg" /\ Filter(out[fpos + 1], allow)
              THEN Append(fwd, out[fpos + 1])
              ELSE fwd
    /\ UNCHANGED <<input, rd, buf, start, end, serr, done, token, index, msg,
                   out, pc, tokens, allow>>

NextFilter == Next \/ FilterStep

----------------------------------------------------------------------------
(* Inputs *)

\* a storage header: "DLT\x01", seconds, microseconds, "ECU1"
Storage(s) == <<68, 76, 84, 1, s, 0, 0, 0, s + 1, 0, 0, 0, 69, 67, 85, 49>>

\* a frame whose length field declares mlen, whatever follows
Frame(s, htyp, mcnt, mlen, rest) ==
    Storage(s) \o <<htyp, mcnt, mlen \div 256, mlen % 256>> \o rest

\* a frame whose length field is the length of what follows the storage header
WellFramed(s, htyp, mcnt, rest) == Frame(s, htyp, mcnt, 4 + Len(rest), rest)

\* non-verbose, no optional field: message id 42
FrameA == WellFramed(1, 0, 0, <<42, 0, 0, 0>>)
\* non-verbose, ECU id and timestamp: message id 43, raw bytes 1, 2
FrameB == WellFramed(2, WEID + WTMS, 2,
                     <<69, 67, 85, 50>> \o <<0, 0, 48, 57>>
                     \o <<43, 0, 0, 0>> \o <<1, 2>>)
\* complete, but with no room for a message id
FrameC == Frame(3, 0, 3, 4, <<>>)
\* declares less than its flags' header size
FrameD == Frame(4, WEID, 4, 4, <<>>)
\* declares the length 0
FrameE == Frame(5, 0, 5, 0, <<>>)
\* declares 256 bytes and holds 8
FrameH == Frame(6, 0, 6, 256, <<7, 0, 0, 0>>)

RECURSIVE Flatten(_)
Flatten(ss) == IF ss = <<>> THEN <<>> ELSE Head(ss) \o Flatten(Tail(ss))

\* the concatenations of at most n of the blocks
Streams(blocks, n) ==
    { Flatten(ss) : ss \in UNION { [1..k -> blocks] : k \in 0..n } }

\* the stream with its last k bytes cut off
Cut(s, k) == SubSeq(s, 1, Len(s) - Min(k, Len(s)))

FramingInputs ==
    { Cut(s, k) : s \in Streams({FrameA, FrameB, FrameC, FrameD, FrameE,
                                 FrameH}, MaxFrames),
                  k \in {0, 1, 5} }

InitFrom(inputs, allowLists) ==
    /\ input \in inputs
    /\ rd = 0
    /\ buf = <<>>
    /\ start = 0
    /\ end = 0
    /\ serr = "nil"
    /\ done = FALSE
    /\ token = NilSlice
    /\ index = 0
    /\ msg = NoMessage
    /\ out = <<>>
    /\ pc = "scan"
    /\ tokens = <<>>
    /\ allow \in allowLists
    /\ fpos = 0
    /\ fwd = <<>>

\* no allow-list
InitWith(inputs) == InitFrom(inputs, {{}})

Init == InitWith(FramingInputs)

\* a type-info of the bits n, little-endian
TypeInfo(n) == <<n % 256, (n \div 256) % 256, 0, 0>>

ArgTrue   == TypeInfo(BOOL + 1) \o <<1>>
ArgFalse  == TypeInfo(BOOL + 1) \o <<0>>
ArgSint16 == TypeInfo(SINT + 2) \o <<5, 6>>
ArgUint32 == TypeInfo(UINT + 3) \o <<1, 2, 3, 4>>
\* the string abc
ArgAbc    == TypeInfo(STRG) \o <<3, 0>> \o <<97, 98, 99>>
\* the string a" and a NUL
ArgQuoted == TypeInfo(STRG) \o <<3, 0>> \o <<97, 34, 0>>
\* the string hi, with the variable-info bit
ArgVari   == TypeInfo(STRG + VARI) \o <<2, 0>> \o <<104, 105>>
\* a signed integer of one byte, with the fixed-point bit
ArgFixp   == TypeInfo(SINT + FIXP + 1) \o <<7>>
\* a float (bit 7): none of the four kinds
ArgFloat  == TypeInfo(128 + 3) \o <<1, 2, 3, 4>>
\* two kinds at once
ArgTwoKinds == TypeInfo(BOOL + SINT + 1) \o <<1>>
\* a signed integer of the length class 0
ArgSint0  == TypeInfo(SINT)

ArgTemplates ==
    {ArgTrue, ArgSint16, ArgUint32, ArgAbc, ArgQuoted, ArgVari}

\* the lists of at most MaxArgs arguments, and some with the odd arguments
ArgLists ==
    UNION { [1..k -> ArgTemplates] : k \in 0..MaxArgs }
    \cup {<<ArgFalse>>, <<ArgAbc, ArgFalse>>, <<ArgFixp>>, <<ArgFixp, ArgTrue>>,
          <<ArgFloat>>, <<ArgTrue, ArgFloat>>, <<ArgTwoKinds>>,
          <<ArgSint0, ArgTrue>>}

\* a frame with an extended header: APP1, CTX, and the arguments
ExtFrame(htyp, msin, noar, args) ==
    WellFramed(7, htyp, 9,
               (IF HasBit(htyp, WEID) THEN <<69, 67, 85, 50>> ELSE <<>>)
               \o (IF HasBit(htyp, WTMS) THEN <<0, 0, 48, 57>> ELSE <<>>)
               \o <<msin, noar, 65, 80, 80, 49, 67, 84, 88, 0>>
               \o Flatten(args))

\* message id 42 and the raw bytes 1, 2
Raw42 == <<<<42, 0, 0, 0>>, <<1, 2>>>>
\* message id 299, whose first byte is odd, and no raw byte
Raw299 == <<<<43, 1, 0, 0>>>>

DecodeInputs ==
    \* verbose, the argument count that of the arguments, alone or followed
    { ExtFrame(UEH, 64 + VERB, Len(a), a) \o t :
          a \in ArgLists, t \in {<<>>, FrameA} }
    \* verbose, the argument count one more than the arguments
    \cup { ExtFrame(UEH, 64 + VERB, Len(a) + 1, a) \o t :
          a \in {<<>>, <<ArgTrue>>, <<ArgAbc>>}, t \in {<<>>, FrameA} }
    \* the verbose bit with and without the extended header flag, and other
    \* flags and control bits
    \cup { ExtFrame(h, m, Len(a), a) :
          h \in {0, UEH, WEID + WTMS, UEH + WEID + WTMS},
          m \in {VERB, 64, 2 + VERB},
          a \in {Raw42, Raw299, <<ArgAbc, ArgTrue>>} }
    \* no extended header at all
    \cup { WellFramed(8, h, 3, Flatten(a)) :
          h \in {0, MSBF, WEID + WSID + WTMS},
          a \in {Raw42, Raw299, <<<<42, 0>>>>} }

InitDecode == InitWith(DecodeInputs)

\* the application identifiers APP1, APP2, APP3
App1 == <<65, 80, 80, 49>>
App2 == <<65, 80, 80, 50>>
App3 == <<65, 80, 80, 51>>

AllowLists == {{}, {App1, App3}}

\* a non-verbose frame of the application and context identifiers
AppFrame(apid, ctid) ==
    WellFramed(7, UEH, 9, <<64, 0>> \o apid \o ctid \o <<42, 0, 0, 0>>)

FilterInputs ==
    Streams({FrameA, AppFrame(App1, <<67, 84, 88, 0>>), AppFrame(App2, App1)},
            MaxFrames)

InitFilter == InitFrom(FilterInputs, AllowLists)

SpecFilter == InitFilter /\ [][NextFilter]_vars

\* a non-verbose frame of n bytes: message id 44 and zeros
BigFrame(n) == WellFramed(3, 0, 7, <<44, 0, 0, 0>> \o Zeros(n - 24))

\* one byte less than the scanner's largest buffer
FrameG == BigFrame(MaxScanTokenSize - 1)
\* as long as the scanner's largest buffer
FrameF == BigFrame(MaxScanTokenSize)

LiveInputs == Streams({FrameA, FrameC, FrameG, FrameF}, MaxFrames)

InitLive == InitWith(LiveInputs)

\* main runs on while it can: no step of it is put off for ever
LiveSpec == InitLive /\ [][Next]_vars /\ WF_vars(Next)

\* every value of the flag byte
FlagBytes == 0..255

\* a frame of the flag byte h: twelve bytes where the optional fields may
\* lie, ten where the extended header may, and eight more; v varies the
\* bytes other than the flag byte
HeaderFrame(h, v) ==
    WellFramed(1 + v, h, v,
               [i \in 1..12 |-> 2 * i + 40 * v]
               \o <<0, 0, 65, 80, 80, 49, 67, 84, 88, 0>>
               \o <<42 + v, 0, 0, 0, 1, 2, 3, 4>>)

HeaderInputs == { HeaderFrame(h, v) : h \in FlagBytes, v \in {0, 1} }

InitHeader == InitWith(HeaderInputs)

SpecHeader == InitHeader /\ [][Next]_vars

SpecDecode == InitDecode /\ [][Next]_vars

Spec == Init /\ [][Next]_vars

----------------------------------------------------------------------------
(* What the claims speak of, computed from the input and the history *)

\* the frames Scan has yielded
TokenBytes == [k \in 1..Len(tokens) |-> tokens[k].bytes]

\* the offset in the input at which the k-th yielded frame starts, the
\* frames being laid end to end
OffsetOf(k) == Len(Flatten(SubSeq(TokenBytes, 1, k - 1)))

\* the big-endian uint16 at the offsets o+18, o+19 of s
LengthFieldAt(s, o) == s[o + 19] * 256 + s[o + 20]

RECURSIVE FramedUpTo(_, _)
\* where framing s from the offset o on stops: the start of the remainder
\* that is empty, shorter than 20 bytes or shorter than it declares
FramedUpTo(s, o) ==
    IF Len(s) - o < 20 THEN o
    ELSE IF Len(s) - o < 16 + LengthFieldAt(s, o) THEN o
    ELSE FramedUpTo(s, o + 16 + LengthFieldAt(s, o))

\* the input ends in a non-empty remainder that is no whole frame
TruncatedInput == FramedUpTo(input, 0) < Len(input)

\* main has parsed a frame into msg
Parsed == msg # NoMessage

RECURSIVE FramesOf(_, _)
\* the frames of s from the offset o on, as far as FramedUpTo goes
FramesOf(s, o) ==
    IF Len(s) - o < 20 \/ Len(s) - o < 16 + LengthFieldAt(s, o) THEN <<>>
    ELSE <<SubSeq(s, o + 1, o + 16 + LengthFieldAt(s, o))>>
         \o FramesOf(s, o + 16 + LengthFieldAt(s, o))

\* the input is whole frames end to end
CompleteInput == FramedUpTo(input, 0) = Len(input)

\* Message.Parse decodes the frame F to the end
Decodes(F) == ~MessageParse(MkSlice(F, Len(F))).panic

\* every frame of the input was yielded once and in order, its message
\* written with its index, and main has ended without error
AllEmitted ==
    LET fs == FramesOf(input, 0)
    IN  /\ pc = "exit"
        /\ TokenBytes = fs
        /\ index = Len(fs)
        /\ Len(out) = Len(fs)
        /\ \A k \in 1..Len(fs) :
               /\ out[k].kind = "msg"
               /\ out[k].index = k - 1
               /\ out[k].mcnt = fs[k][18]

\* the frame msg was parsed from: index counts the frames parsed to the end
MsgFrame == tokens[IF msg.panic THEN Len(tokens) ELSE index].bytes

\* 4, and 4 for each of the ECU id, session id and timestamp flags of h
ClaimHeaderSize(h) ==
    4 + 4 * ((IF HasBit(h, WEID) THEN 1 ELSE 0)
             + (IF HasBit(h, WSID) THEN 1 ELSE 0)
             + (IF HasBit(h, WTMS) THEN 1 ELSE 0))

\* the offset in the frame F of its extended header, past the storage header
ClaimExtStart(F) == StorageSize + ClaimHeaderSize(F[17])

\* the offset in the frame F of its payload
ClaimPayloadStart(F) ==
    ClaimExtStart(F) + (IF HasBit(F[17], UEH) THEN ExtendedSize ELSE 0)

\* the extended-header flag of F, and bit 0 of its control byte
ClaimVerbose(F) ==
    /\ HasBit(F[17], UEH)
    /\ Len(F) > ClaimExtStart(F)
    /\ HasBit(F[ClaimExtStart(F) + 1], VERB)

RECURSIVE ClaimArgs(_, _, _)
\* n arguments read one after the other from the offset o of the payload P,
\* each of one of the four kinds and lying within P: [ok, args]
ClaimArgs(P, o, n) ==
    IF n = 0 THEN [ok |-> TRUE, args |-> <<>>]
    ELSE IF o + 4 > Len(P) THEN [ok |-> FALSE, args |-> <<>>]
    ELSE
    LET ti   == P[o + 1] + 256 * P[o + 2] + 65536 * P[o + 3]
                + 16777216 * P[o + 4]
        kind == {k \in {BOOL, SINT, UINT, STRG} : HasBit(ti, k)}
        tyle == ti % 16
        L    == P[o + 5] + 256 * P[o + 6]
        used == IF kind = {BOOL} THEN 1
                ELSE IF kind = {STRG}
                THEN (IF o + 6 <= Len(P) THEN 2 + L ELSE 2)
                ELSE IF tyle >= 1 THEN Pow2(tyle - 1) ELSE 0
        v    == IF kind = {BOOL} THEN [kind |-> "bool", val |-> P[o + 5] # 0]
                ELSE IF kind = {SINT} THEN [kind |-> "int32", val |-> 0]
                ELSE IF kind = {UINT} THEN [kind |-> "uint32", val |-> 0]
                ELSE [kind |-> "string",
                      val  |-> QuoteBody(TrimRight(
                                   SubSeq(P, o + 7, o + 6 + L)))]
    IN  IF \/ Cardinality(kind) # 1
           \/ HasBit(ti, VARI) \/ HasBit(ti, FIXP)
           \/ (kind \in {{SINT}, {UINT}} /\ tyle = 0)
           \/ o + 4 + used > Len(P)
        THEN [ok |-> FALSE, args |-> <<>>]
        ELSE LET r == ClaimArgs(P, o + 4 + used, n - 1)
             IN  [ok |-> r.ok, args |-> <<v>> \o r.args]

----------------------------------------------------------------------------
(* C1: Every frame the split function hands to the scanner has length      *)
(* exactly 16 + messageLength, messageLength being the big-endian uint16   *)
(* at the offsets 18..19 from the frame's start; this for any buffer       *)
(* contents and for either value of atEOF.                                 *)
C1_FrameLength ==
    \A k \in 1..Len(tokens) :
        LET F == tokens[k].bytes
            o == OffsetOf(k)
        IN  /\ o + 20 <= Len(input)
            /\ Len(F) = 16 + LengthFieldAt(input, o)
            /\ Len(F) >= 20 => Len(F) = 16 + LengthFieldAt(F, 0)

\* a frame was yielded before the end of the file was seen, and one after
C1_Witness ==
    /\ Len(tokens) = 2
    /\ ~tokens[1].atEOF
    /\ tokens[2].atEOF
    /\ Len(tokens[2].bytes) > 20

(* C2: The frames yielded are disjoint and contiguous: laid end to end     *)
(* they are a prefix of the input, and that prefix is what the scanner has *)
(* consumed (all the input, once the final frame is yielded).              *)
C2_Contiguous ==
    LET emitted == Flatten(TokenBytes)
    IN  /\ Len(emitted) <= Len(input)
        /\ emitted = SubSeq(input, 1, Len(emitted))
        /\ (pc \in {"scan", "read", "body"} /\ ~done)
               => Len(emitted) = rd - (end - start)
        /\ done => Len(emitted) = Len(input)

\* two frames were yielded, the buffer having grown and been shifted
C2_Witness ==
    /\ Len(tokens) = 2
    /\ Len(buf) > StartBufSize
    /\ tokens[1].bytes = FrameB
    /\ tokens[2].bytes = FrameA
    /\ pc = "exit"

(* C3: If the input ends in a non-empty remainder shorter than 20 bytes or *)
(* shorter than the 16 + messageLength bytes it declares, the run ends in  *)
(* a fatal framing error, not normally.                                    *)
C3_TruncationIsFatal == TruncatedInput => pc # "exit"

(* C4: In a verbose payload, an argument whose type-info has the           *)
(* variable-info bit or the fixed-point bit set aborts the whole run as a  *)
(* fatal error: after the line that reports the bit, no message is         *)
(* emitted, neither the message of that argument nor a later one, and the  *)
(* run does not go on to a normal end.                                     *)
C4_UnsupportedAborts ==
    \A i \in 1..Len(out) :
        out[i].kind = "mark" =>
            /\ \A j \in (i + 1)..Len(out) : out[j].kind # "msg"
            /\ pc \notin {"scan", "read", "body", "err", "exit"}

(* C5: For a verbose message Payload.Parse produces exactly argumentCount  *)
(* arguments; when the payload holds that many arguments of the kinds      *)
(* boolean, signed, unsigned (length class 1 or more) and string, each     *)
(* starting where the one before ends, having consumed 4 bytes of          *)
(* type-info and 1, 2^(class-1) or 2+L bytes, the decoding completes and   *)
(* its arguments are those.                                                *)
C5_SequentialArguments ==
    (Parsed /\ Len(MsgFrame) >= 20 /\ ClaimVerbose(MsgFrame)) =>
        LET F    == MsgFrame
            ps   == ClaimPayloadStart(F)
            noar == F[ClaimExtStart(F) + 2]
            c    == ClaimArgs(SubSeq(F, ps + 1, Len(F)), 0, noar)
        IN  /\ ~msg.panic => Len(msg.pl.args) = noar
            /\ (Len(F) >= ps /\ c.ok) =>
                   /\ ~msg.panic
                   /\ msg.pl.args = c.args
                   /\ out[Len(out)].args = c.args

\* the string abc and the boolean 1, argumentCount 2, decoded to abc, true
C5_Witness ==
    /\ Parsed /\ ~msg.panic /\ msg.verbose
    /\ msg.eh.noar = 2
    /\ msg.pl.args = <<[kind |-> "string", val |-> <<97, 98, 99>>],
                       [kind |-> "bool", val |-> TRUE]>>

C7_HeaderSize ==
    Parsed =>
        LET F == MsgFrame
            h == F[17]
            o == StorageSize + 4
                 + 4 * ((IF HasBit(h, WEID) THEN 1 ELSE 0)
                        + (IF HasBit(h, WSID) THEN 1 ELSE 0))
        IN  /\ ~msg.sh.panic
            /\ msg.sh.size = ClaimHeaderSize(h)
            /\ out # <<>> => out[Len(out)].htyp = h
            /\ HasBit(h, WTMS) =>
                   msg.sh.tmsp = 16777216 * F[o + 1] + 65536 * F[o + 2]
                                 + 256 * F[o + 3] + F[o + 4]

\* the flag byte 154: session id and timestamp, and two bits that do not
\* count; the timestamp is that of the bytes 10, 12, 14, 16
C7_Witness ==
    /\ Parsed
    /\ msg.sh.htyp = 128 + WTMS + WSID + MSBF
    /\ msg.sh.size = 12
    /\ msg.sh.tmsp = 168562192

(* C9: With a non-empty allow-list a decoded message reaches the consumer  *)
(* only if its frame has the extended-header flag and the application      *)
(* identifier of its extended header is in the allow-list; with an empty   *)
(* allow-list every decoded message the filter has taken reaches the       *)
(* consumer. No message reaches it twice or out of order.                  *)
C9_FilterAllowList ==
    /\ \A k \in 1..Len(fwd) :
           LET F == tokens[fwd[k].index + 1].bytes
               o == ClaimExtStart(F)
           IN  /\ fwd[k].kind = "msg"
               /\ allow # {} =>
                      /\ HasBit(F[17], UEH)
                      /\ Trim(SubSeq(F, o + 3, o + 6)) \in allow
               /\ k > 1 => fwd[k - 1].index < fwd[k].index
    /\ allow = {} =>
           fwd = SelectSeq(SubSeq(out, 1, fpos), LAMBDA l : l.kind = "msg")

\* the allow-list APP1, APP3: a message without extended header was dropped and
\* the message of APP1 after it was forwarded
C9_Witness ==
    /\ allow = {App1, App3}
    /\ fpos = 2
    /\ ~out[1].ueh
    /\ Len(fwd) = 1
    /\ fwd[1].index = 1
    /\ fwd[1].apid = App1

(* C10, as amended: for an input of N whole frames end to end, each        *)
(* shorter than the scanner's largest buffer and each decoded by           *)
(* Message.Parse to the end, read in any chunks and then the end of the    *)
(* file, main eventually has emitted each of the N frames once, in the     *)
(* order of the input, with the indices 0..N-1, and has ended without      *)
(* error.                                                                  *)
C10_ShorterFramesAllEmitted ==
    (/\ CompleteInput
     /\ \A k \in 1..Len(FramesOf(input, 0)) :
            /\ Len(FramesOf(input, 0)[k]) < MaxScanTokenSize
            /\ Decodes(FramesOf(input, 0)[k]))
    ~> AllEmitted

\* a frame one byte short of the largest buffer, then a second frame: both
\* emitted, the first before the end of the file was seen
C10_Witness ==
    /\ AllEmitted
    /\ input = FrameG \o FrameA
    /\ ~tokens[1].atEOF
    /\ Len(buf) = MaxScanTokenSize

(* C10, as claimed: for an input of N whole frames end to end, each within *)
(* the scanner's largest buffer, read in any chunks and then the end of    *)
(* the file, main eventually has emitted each of the N frames once, in     *)
(* order, with the indices 0..N-1, and has ended without error.            *)
C10_AllFramesEmitted ==
    (/\ CompleteInput
     /\ \A k \in 1..Len(FramesOf(input, 0)) :
            Len(FramesOf(input, 0)[k]) <= MaxScanTokenSize)
    ~> AllEmitted

(* C8, as amended: for every frame that Message.Parse decodes to the end   *)
(* (no run-time panic), the computed headerSize, and with it the extended  *)
(* header when there is one, lies within the declared messageLength.       *)
C8_DecodedHeaderInsideFrame ==
    (Parsed /\ ~msg.panic) =>
        /\ msg.sh.size <= msg.sh.len
        /\ msg.sh.size + (IF msg.sh.ueh THEN ExtendedSize ELSE 0) <= msg.sh.len

\* a frame with two optional fields was decoded
C8_Witness ==
    /\ Parsed /\ ~msg.panic
    /\ msg.sh.size = 12
    /\ msg.sh.len = 18

(* C8, as claimed: for every frame the splitter yields and the decoder     *)
(* processes, the computed headerSize is at most the declared              *)
(* messageLength.                                                          *)
C8_HeaderInsideFrame ==
    (Parsed /\ ~msg.sh.panic) => msg.sh.size <= msg.sh.len

====
